---------------------------- MODULE Spec2Model ----------------------------
(* Model of polsalt/specpolutils.py: the dated-record selection            *)
(* (datedfile, datedline) and the configuration grouping / arc pairing     *)
(* (list_configurations, configmap, list_configurations_old).              *)
(*                                                                         *)
(* Every function is a pure batch computation.  An action is one call: it  *)
(* draws the call's inputs from a bounded set, runs the function as the    *)
(* code runs it (the loops are recursive operators over positions) and     *)
(* stores the inputs, the intermediate arrays and the result.  Return      *)
(* brings the caller back to the idle state.                               *)
EXTENDS Integers, Sequences, FiniteSets, TLC

VARIABLES
  pc,          \* "idle", or the call that has just ended: "datedline", "datedfile",
               \* "list_configurations", "list_configurations_old" (returned),
               \* "raise" (an exception left the call), "exit" (the process exited)
  ftext,       \* datedline: the lines of the file, in file order
  line_l,      \* datedline: the lines kept by the "_v" filter (line 49)
  date,        \* the query date (yyyymmdd as an integer)
  line,        \* datedline: position in line_l of the returned line, 0 for ""
  globbed,     \* datedfile: the set of file names matching the pattern
  filelist,    \* datedfile: sorted(glob.glob(...))
  file,        \* datedfile: position in filelist of the returned name, 0 for ""
  obs,         \* the observation log: file name (0-based position in the caller's list) -> header
  infilelist,  \* the file names the grouping works on (after the BS-STATE filter), 0-based
  old_data,    \* list_configurations: some DATE-OBS is before 2015
  confdatlist, \* the distinct configurations, in the order list(set(...)) produced
  wavblktbl,   \* list_configurations_old: the columns saved to wavblktbl.txt (line 275)
  wavblk_i,    \* list_configurations_old: block id per record after the no-arc pass
  iarc_i,      \* list_configurations_old: arc index per record
  iarc_a,      \* list_configurations_old: the distinct chosen arc indices, ascending
  log,         \* the messages given to log.message, in order
  warned,      \* list_configurations: the keys at which line 214 was executed
  config_dict, \* list_configurations: the returned map
  err          \* the exception that ended the call, "" if none

dvars == <<ftext, line_l, date, line, globbed, filelist, file>>
cvars == <<obs, infilelist, old_data, confdatlist, wavblktbl, wavblk_i, iarc_i, iarc_a,
           log, warned, config_dict, err>>
vars == <<pc, dvars, cvars>>

-----------------------------------------------------------------------------
(* Bounds of the model *)

MaxLines == 3      \* lines of a calibration file / files of a directory listing
MaxDate == 3       \* dates are 1..MaxDate; queries range over 0..MaxDate+1
MaxVer == 2        \* versions are 1..MaxVer

Dates == 1..MaxDate
Vers == 1..MaxVer
QueryDates == 0..(MaxDate + 1)

(* A line of the file: a dated record "yyyymmdd_vnn payload" or any other   *)
(* line (header, comment), which has no "_v" at columns 8..9.              *)
OtherLine == [dated |-> FALSE, date |-> 0, ver |-> 0]
DatedLines == [dated : {TRUE}, date : Dates, ver : Vers]
FileLines == DatedLines \cup {OtherLine}

SeqsUpTo(S, n) == UNION {[1..k -> S] : k \in 0..n}

-----------------------------------------------------------------------------
(* datedline, lines 49-60 *)

\* line 49: ll[8:10] == "_v"
IsDated(ll) == ll.dated

\* line 54, mutated: a record dated on the query date is skipped too
SkipFutureOrSame(qdate, d) == qdate <= d
\* line 54: if (int(date) < int(datever[:8])): continue
SkipFuture(qdate, d) == qdate < d

\* line 56, mutated: a later record of the same date is skipped
SkipLaterOrSame(vdate, cur) == vdate >= cur
\* line 56: if (int(vdatever[:8]) > int(datever[:8])): continue
\* (datever is the running candidate: line 57 reassigns it)
SkipLater(vdate, cur) == vdate > cur

\* lines 55-58: the forward scan from position p, with running candidate date cur
RECURSIVE InnerLine(_, _, _, _)
InnerLine(dl, p, cur, sel) ==
  IF p > Len(dl) THEN sel
  ELSE IF SkipLater(dl[p].date, cur) THEN InnerLine(dl, p + 1, cur, sel)
  ELSE InnerLine(dl, p + 1, dl[p].date, p)

\* lines 52-60: the outer loop over positions l
RECURSIVE OuterLine(_, _, _, _)
OuterLine(dl, qdate, l, sel) ==
  IF l > Len(dl) THEN sel
  ELSE IF SkipFuture(qdate, dl[l].date) THEN OuterLine(dl, qdate, l + 1, sel)
  ELSE OuterLine(dl, qdate, l + 1, InnerLine(dl, l, dl[l].date, sel))

datedline(dl, qdate) == OuterLine(dl, qdate, 1, 0)

-----------------------------------------------------------------------------
(* datedfile, lines 23-34 *)

\* Order of two file names that differ only in the yyyymmdd_vnn field
NameLess(a, b) == a.date < b.date \/ (a.date = b.date /\ a.ver < b.ver)

\* line 23: sorted(glob.glob(...))
RECURSIVE sorted(_)
sorted(S) ==
  IF S = {} THEN <<>>
  ELSE LET m == CHOOSE x \in S : \A y \in S \ {x} : NameLess(x, y)
       IN <<m>> \o sorted(S \ {m})

\* line 29: if date < fdate: continue
SkipFutureFile(qdate, fdate) == qdate < fdate

\* line 31: if vdate > fdate: continue   (fdate is the outer loop's, never reassigned)
SkipLaterFile(vdate, fdate) == vdate > fdate

\* lines 30-32
RECURSIVE InnerFile(_, _, _, _)
InnerFile(fl, p, fdate, sel) ==
  IF p > Len(fl) THEN sel
  ELSE IF SkipLaterFile(fl[p].date, fdate) THEN InnerFile(fl, p + 1, fdate, sel)
  ELSE InnerFile(fl, p + 1, fdate, p)

\* lines 28-32
RECURSIVE OuterFile(_, _, _, _)
OuterFile(fl, qdate, f, sel) ==
  IF f > Len(fl) THEN sel
  ELSE IF SkipFutureFile(qdate, fl[f].date) THEN OuterFile(fl, qdate, f + 1, sel)
  ELSE OuterFile(fl, qdate, f + 1, InnerFile(fl, f, fl[f].date, sel))

\* line 27, mutated: file = ""
NoFile(fl) == 0
\* line 27: file = filelist[0]
FirstFile(fl) == 1

\* lines 24-34
datedfile(fl, qdate) ==
  IF Len(fl) = 0 THEN 0 ELSE OuterFile(fl, qdate, 1, FirstFile(fl))

-----------------------------------------------------------------------------
(* Observation log and helpers                                              *)
(* Angles GR-ANGLE and CAMANG are in hundredths of a degree, TRKRHO in      *)
(* degrees; a file is named by its 0-based position in the caller's list.   *)

newtrk == 5          \* line 249: new track when rotator changes by more (deg)
GoodState == 2       \* line 161: BS-STATE subfield required
FirstNewYear == 2015 \* line 167
GrangTol == 3        \* line 209: .03
CamangTol == 5       \* line 210: .05

Idx(n) == 0..(n - 1)
Size(f) == Cardinality(DOMAIN f)
Abs(x) == IF x < 0 THEN -x ELSE x
MinOf(S) == CHOOSE x \in S : \A y \in S : x <= y
MaxOf(S) == CHOOSE x \in S : \A y \in S : y <= x
Range(f) == {f[x] : x \in DOMAIN f}

\* the ascending array of the elements of a set of integers (np.unique, np.where)
RECURSIVE Ascending(_)
Ascending(S) ==
  IF S = {} THEN <<>>
  ELSE LET m == MaxOf(S)
           r == Ascending(S \ {m})
       IN [i \in Idx(Cardinality(S)) |-> IF i = Cardinality(S) - 1 THEN m ELSE r[i]]

\* x[1:] = flags.cumsum(), x[0] = 0   (lines 251-252, 264-265, 268-271)
RECURSIVE CumCount(_, _)
CumCount(flag, i) ==
  IF i = 0 THEN 0 ELSE CumCount(flag, i - 1) + (IF flag[i] THEN 1 ELSE 0)

\* str.upper().strip() on the OBJECT values of the model
UpperStrip(s) == IF s \in {"ARC", "arc ", " Arc"} THEN "ARC" ELSE s

-----------------------------------------------------------------------------
(* list_configurations_old, lines 244-305 *)

\* line 252: np.abs(trkrho_i[1:]-trkrho_i[:-1]) > newtrk
NewTrack(prev, cur) == Abs(cur - prev) > newtrk

\* line 265, mutated: any forward step opens a file group
FileGapAny(prev, cur) == (cur - prev) >= 1
\* line 265: (imageno_i[1:]-imageno_i[:-1]) > 1
FileGap(prev, cur) == (cur - prev) > 1

\* line 258: the configuration tuple of a record (grating stripped, line 255)
configdat(h) == <<h.grating, h.grang, h.camang>>

\* line 266
isarc(h) == UpperStrip(h.object) = "ARC"

\* lines 269-271
NewBlock(tbl, i) ==
  \/ tbl.grp[i] # tbl.grp[i - 1]
  \/ tbl.trk[i] # tbl.trk[i - 1]
  \/ tbl.conf[i] # tbl.conf[i - 1]

\* lines 248-271: the per-record columns; cdl is confdatlist
Segment(infl, o, cdl) ==
  LET n == Size(infl)
      h(i) == o[infl[i]]
      trk == [i \in Idx(n) |->
                CumCount([j \in 1..(n - 1) |-> NewTrack(h(j - 1).rho, h(j).rho)], i)]
      conf == [i \in Idx(n) |-> CHOOSE c \in DOMAIN cdl : cdl[c] = configdat(h(i))]
      grp == [i \in Idx(n) |->
                CumCount([j \in 1..(n - 1) |-> FileGap(h(j - 1).img, h(j).img)], i)]
      pre == [grp |-> grp, trk |-> trk, conf |-> conf]
      wblk == [i \in Idx(n) |->
                CumCount([j \in 1..(n - 1) |-> NewBlock(pre, j)], i)]
  IN [rho |-> [i \in Idx(n) |-> h(i).rho], img |-> [i \in Idx(n) |-> h(i).img],
      grp |-> grp, trk |-> trk, conf |-> conf, wblk |-> wblk,
      arc |-> [i \in Idx(n) |-> isarc(h(i))]]

\* line 274: arcs_c
arcs_c(tbl, c) == Cardinality({i \in DOMAIN tbl.arc : tbl.arc[i] /\ tbl.conf[i] = c})

RECURSIVE SumTo(_, _)
SumTo(tbl, c) == IF c < 0 THEN 0 ELSE arcs_c(tbl, c) + SumTo(tbl, c - 1)

\* line 285, mutated: a single configuration without arc is fatal
NoArcHere(tbl, configs) == TRUE
\* line 285: arcs_c.sum() == 0
NoArcAtAll(tbl, configs) == SumTo(tbl, configs - 1) = 0

Message(m, images, arcimg) == [msg |-> m, images |-> images, arc |-> arcimg]
ImagesOf(tbl, S) == LET a == Ascending(S) IN [k \in 1..Cardinality(S) |-> tbl.img[a[k - 1]]]

\* lines 278-287: st = [wavblk, log, exited]
RECURSIVE NoArcPass(_, _, _, _)
NoArcPass(tbl, configs, c, st) ==
  IF c >= configs THEN st
  ELSE IF arcs_c(tbl, c) = 0
  THEN LET lost == {i \in DOMAIN tbl.conf : tbl.conf[i] = c}
           st1 == [wavblk |-> [i \in DOMAIN st.wavblk |->
                                 IF tbl.conf[i] = c THEN -1 ELSE st.wavblk[i]],
                   log |-> Append(st.log, Message("No Arc for this configuration",
                                                  ImagesOf(tbl, lost), -1)),
                   exited |-> FALSE]
       IN IF NoArcAtAll(tbl, configs)
          THEN [st1 EXCEPT !.log = Append(@, Message("Cannot calibrate any images", <<>>, -1)),
                           !.exited = TRUE]
          ELSE NoArcPass(tbl, configs, c + 1, st1)
  ELSE NoArcPass(tbl, configs, c + 1, st)

\* line 288: iarc_i = -np.zeros((infiles),dtype=int)
InitialArc == 0

\* lines 299-300: imageno_i[iarc_I] - blkimagepos, times the block size
\* (blkimagepos is the block's mean, sum/size: the order of the values is kept)
ArcOffset(arcimg, blksize, blksum) == arcimg * blksize - blksum

RECURSIVE SumImg(_, _)
SumImg(tbl, S) ==
  IF S = {} THEN 0 ELSE LET i == MinOf(S) IN tbl.img[i] + SumImg(tbl, S \ {i})

\* line 300: iarc_I[np.argmin(...)], the first position of the least value
ClosestArc(tbl, cand, blk) ==
  LET off(a) == ArcOffset(tbl.img[a], Cardinality(blk), SumImg(tbl, blk))
  IN CHOOSE a \in cand :
       \A b \in cand : off(a) < off(b) \/ (off(a) = off(b) /\ a <= b)

\* lines 291-300: the arc of block w (blk is its non-empty set of records)
BlockArc(tbl, wavblk, blk) ==
  LET inblk == {i \in blk : tbl.arc[i]}
  IN IF inblk # {} THEN MinOf(inblk)
     ELSE LET conf == tbl.conf[MinOf(blk)]
              cand == {i \in DOMAIN tbl.arc : tbl.conf[i] = conf /\ tbl.arc[i]}
          IN ClosestArc(tbl, cand, blk)

\* lines 290-303: st = [iarc, log]
RECURSIVE AssignPass(_, _, _, _, _)
AssignPass(tbl, wavblk, wavblks, w, st) ==
  IF w >= wavblks THEN st
  ELSE LET blk == {i \in DOMAIN wavblk : wavblk[i] = w}
       IN IF blk = {} THEN AssignPass(tbl, wavblk, wavblks, w + 1, st)
          ELSE LET iarc == BlockArc(tbl, wavblk, blk)
               IN AssignPass(tbl, wavblk, wavblks, w + 1,
                    [iarc |-> [i \in DOMAIN st.iarc |-> IF i \in blk THEN iarc ELSE st.iarc[i]],
                     log |-> Append(st.log, Message("Use Arc", ImagesOf(tbl, blk),
                                                    tbl.img[iarc]))])

\* line 304: np.unique(iarc_i[iarc_i != -1])
ChosenArcs(iarc) == Ascending({iarc[i] : i \in DOMAIN iarc} \ {-1})

\* the orders list(set(configdat_i)) can produce (line 259)
SetOrders(S) ==
  {f \in [Idx(Cardinality(S)) -> S] : \A i, j \in Idx(Cardinality(S)) : f[i] = f[j] => i = j}

Configs(infl, o) == {configdat(o[infl[i]]) : i \in DOMAIN infl}

\* lines 244-305.  end: "return", "exit" (line 287) or "raise" (line 272 on no file)
list_configurations_old(infl, o, cdl, log0) ==
  LET n == Size(infl)
      tbl == Segment(infl, o, cdl)
      none == [end |-> "raise", err |-> "ValueError", tbl |-> tbl, wavblk |-> tbl.wblk,
               iarc |-> <<>>, iarc_a |-> <<>>, log |-> log0]
  IN IF n = 0 THEN none
     ELSE LET wavblks == MaxOf(Range(tbl.wblk)) + 1
              p == NoArcPass(tbl, Size(cdl), 0,
                             [wavblk |-> tbl.wblk, log |-> log0, exited |-> FALSE])
          IN IF p.exited
             THEN [none EXCEPT !.end = "exit", !.err = "", !.wavblk = p.wavblk, !.log = p.log]
             ELSE LET a == AssignPass(tbl, p.wavblk, wavblks, 0,
                                      [iarc |-> [i \in Idx(n) |-> InitialArc], log |-> p.log])
                  IN [end |-> "return", err |-> "", tbl |-> tbl, wavblk |-> p.wavblk,
                      iarc |-> a.iarc, iarc_a |-> ChosenArcs(a.iarc), log |-> a.log]

-----------------------------------------------------------------------------
(* list_configurations, lines 157-221, and configmap, line 237 *)

\* line 161: int(obs_dict['BS-STATE'][i][1]) != 2 deletes the file
BadState(h) == h.bs # GoodState

\* lines 160-162: the files left by the filter, in order
Filtered(o) ==
  LET keep == Ascending({f \in DOMAIN o : ~BadState(o[f])})
  IN keep

\* lines 165-167
OldData(infl, o) == \E i \in DOMAIN infl : o[infl[i]].year < FirstNewYear

\* lines 174-180: the configuration numbers in todo, ascending; r is the legacy result
RECURSIVE OldMap(_, _, _, _, _)
OldMap(todo, r, infl, cdl, dict) ==
  IF todo = {} THEN [err |-> "", dict |-> dict]
  ELSE LET i == MinOf(todo)
       IN IF i >= Size(r.iarc_a) THEN [err |-> "IndexError", dict |-> dict]
          ELSE LET a == r.iarc_a[i]
                   ilist == {x \in DOMAIN r.iarc : r.iarc[x] = a}
               IN IF a \notin ilist THEN [err |-> "ValueError", dict |-> dict]
                  ELSE OldMap(todo \ {i}, r, infl, cdl,
                              (cdl[i] :> [arc |-> {infl[a]},
                                          object |-> {infl[x] : x \in ilist \ {a}}]) @@ dict)

\* line 237 with config_list = ('GRATING', 'GR-ANGLE', 'CAMANG', 'BVISITID')
configmap(infl, o) ==
  {<<o[infl[i]].grating, o[infl[i]].grang, o[infl[i]].camang, o[infl[i]].bvisit>> :
     i \in DOMAIN infl}

\* lines 197-201
SameConfig(h, k) ==
  h.grating = k[1] /\ h.grang = k[2] /\ h.camang = k[3] /\ h.bvisit = k[4]

\* lines 208-211, mutated: the bounds are inclusive
OtherVisitLoose(h, k) ==
  /\ h.grating = k[1]
  /\ (h.grang - k[2]) <= GrangTol /\ (h.grang - k[2]) >= -GrangTol
  /\ (h.camang - k[3]) <= CamangTol /\ (h.camang - k[3]) >= -CamangTol
  /\ h.bvisit # k[4]
\* lines 208-211
OtherVisit(h, k) ==
  /\ h.grating = k[1]
  /\ (h.grang - k[2]) < GrangTol /\ (h.grang - k[2]) > -GrangTol
  /\ (h.camang - k[3]) < CamangTol /\ (h.camang - k[3]) > -CamangTol
  /\ h.bvisit # k[4]

IsArc(h) == h.ccdtype = "ARC"
IsFlat(h) == h.ccdtype = "FLAT"
\* line 217, mutated: flats are not excluded from the objects
IsNotArc(h) == h.ccdtype # "ARC"
\* line 217: (objtype != 'ARC') * (objtype != 'FLAT')
IsObject(h) == h.ccdtype # "ARC" /\ h.ccdtype # "FLAT"

\* infilelist[mask]: the files at the positions of a mask
Take(infl, mask) == {infl[i] : i \in mask}

\* lines 197-201: mask
mask(infl, o, k) == {i \in DOMAIN infl : SameConfig(o[infl[i]], k)}
\* lines 208-211: othermask
othermask(infl, o, k) == {i \in DOMAIN infl : OtherVisit(o[infl[i]], k)}

\* line 204
ExactArcs(infl, o, k) == Take(infl, {i \in mask(infl, o, k) : IsArc(o[infl[i]])})
\* line 212
OtherArcs(infl, o, k) == Take(infl, {i \in othermask(infl, o, k) : IsArc(o[infl[i]])})
\* line 207
ArcMissing(infl, o, k) == ExactArcs(infl, o, k) = {}

\* lines 195-217: image_dict of key k
image_dict(infl, o, k) ==
  [arc |-> IF ArcMissing(infl, o, k) THEN OtherArcs(infl, o, k) ELSE ExactArcs(infl, o, k),
   flat |-> Take(infl, {i \in mask(infl, o, k) : IsFlat(o[infl[i]])}),
   object |-> Take(infl, {i \in mask(infl, o, k) : IsObject(o[infl[i]])})]

\* lines 207-214: the keys at which the warning is logged
Warned(infl, o) ==
  {k \in configmap(infl, o) : ArcMissing(infl, o, k) /\ image_dict(infl, o, k).arc # {}}

\* lines 194-219: the entries kept (line 218 drops a key without object)
ModernMap(infl, o) ==
  LET keys == {k \in configmap(infl, o) : image_dict(infl, o, k).object # {}}
  IN [k \in keys |-> image_dict(infl, o, k)]

Warnings(n) == [i \in 1..n |-> Message("Warning: using arc from different BLOCKID", <<>>, -1)]

-----------------------------------------------------------------------------
(* Inputs *)

MaxFiles == 2      \* files of a call, beyond the named examples
MaxImg == 4        \* image numbers are 1..MaxImg

Hdr(img, rho, grating, grang, camang, bvisit, ccdtype, object, bs, year) ==
  [img |-> img, rho |-> rho, grating |-> grating, grang |-> grang, camang |-> camang,
   bvisit |-> bvisit, ccdtype |-> ccdtype, object |-> object, bs |-> bs, year |-> year]

\* pre-2015 headers: image number, rotator angle, configuration and OBJECT vary
LegacyHdrs ==
  [img : 1..MaxImg, rho : {0, 6}, grating : {"PG0900"}, grang : {1500, 1700},
   camang : {3000}, bvisit : {0}, ccdtype : {"OBJECT"}, object : {"ARC", "SCI"},
   bs : {GoodState}, year : {2014}]

\* (GR-ANGLE, CAMANG) pairs: equal, inside the tolerances, and on their edges
Angles == {<<1500, 3000>>, <<1502, 3004>>, <<1503, 3000>>, <<1500, 3005>>}

\* headers since 2015: configuration, visit and CCDTYPE vary
ModernHdrs ==
  {Hdr(1, 0, g, a[1], a[2], v, t, "SCI", GoodState, 2015) :
     g \in {"PG0900", "PG1800"}, a \in Angles, v \in {1, 2}, t \in {"ARC", "FLAT", "OBJECT"}}

\* headers of either period, some failing the BS-STATE filter
MixedHdrs ==
  {Hdr(1, 0, "PG0900", 1500, 3000, 1, t, IF t = "ARC" THEN "ARC" ELSE "SCI", b, y) :
     t \in {"ARC", "OBJECT"}, b \in {GoodState, 0}, y \in {2014, 2015}}

ListsOf(H) == UNION {[Idx(n) -> H] : n \in 0..MaxFiles}

OldHdr(img, rho, grang, object) ==
  Hdr(img, rho, "PG0900", grang, 3000, 0, "OBJECT", object, GoodState, 2014)

AsList(s) == [i \in Idx(Len(s)) |-> s[i + 1]]

\* six consecutive-then-gapped images of one configuration and track
GapExample ==
  AsList(<<OldHdr(100, 0, 1500, " Arc"), OldHdr(101, 0, 1500, "SCI"), OldHdr(102, 0, 1500, "SCI"),
           OldHdr(105, 0, 1500, "SCI"), OldHdr(106, 0, 1500, "SCI"), OldHdr(107, 0, 1500, "SCI")>>)

\* a block {200,201,202} without arc between arcs 190 and 210 of its configuration
NearestExample ==
  AsList(<<OldHdr(190, 0, 1500, "ARC"), OldHdr(200, 0, 1500, "SCI"), OldHdr(201, 0, 1500, "SCI"),
           OldHdr(202, 0, 1500, "SCI"), OldHdr(210, 0, 1500, "arc ")>>)

Examples == {GapExample, NearestExample}

\* a visit without arc of its own (its only arc fails the BS-STATE filter) next to
\* arcs of another visit inside and on the edge of the tolerance, and an arc of
\* its own visit at another angle
BorrowExample ==
  AsList(<<Hdr(1, 0, "PG0900", 1500, 3000, 1, "OBJECT", "SCI", GoodState, 2015),
           Hdr(2, 0, "PG0900", 1500, 3000, 1, "FLAT", "FLAT", GoodState, 2015),
           Hdr(3, 0, "PG0900", 1502, 3004, 2, "ARC", "ARC", GoodState, 2015),
           Hdr(4, 0, "PG0900", 1502, 3004, 2, "OBJECT", "SCI", GoodState, 2015),
           Hdr(5, 0, "PG0900", 1503, 3000, 2, "ARC", "ARC", GoodState, 2015),
           Hdr(6, 0, "PG0900", 1502, 3004, 1, "ARC", "ARC", GoodState, 2015),
           Hdr(7, 0, "PG0900", 1500, 3000, 1, "ARC", "ARC", 0, 2015)>>)

LegacyInputs == ListsOf(LegacyHdrs) \cup Examples
ModernInputs == ListsOf(ModernHdrs) \cup ListsOf(MixedHdrs) \cup {BorrowExample}

-----------------------------------------------------------------------------
Init ==
  /\ pc = "idle"
  /\ ftext = <<>> /\ line_l = <<>> /\ date = 0 /\ line = 0
  /\ globbed = {} /\ filelist = <<>> /\ file = 0
  /\ obs = <<>> /\ infilelist = <<>> /\ old_data = FALSE /\ confdatlist = <<>>
  /\ wavblktbl = <<>> /\ wavblk_i = <<>> /\ iarc_i = <<>> /\ iarc_a = <<>>
  /\ log = <<>> /\ warned = {} /\ config_dict = <<>> /\ err = ""

\* datedline(filename, date)
Datedline ==
  /\ pc = "idle"
  /\ \E t \in SeqsUpTo(FileLines, MaxLines), q \in QueryDates :
       /\ ftext' = t
       /\ date' = q
       /\ line_l' = SelectSeq(t, IsDated)
       /\ line' = datedline(SelectSeq(t, IsDated), q)
  /\ pc' = "datedline"
  /\ UNCHANGED <<globbed, filelist, file, cvars>>

\* datedfile(filename, date)
Datedfile ==
  /\ pc = "idle"
  /\ \E g \in SUBSET DatedLines, q \in QueryDates :
       /\ Cardinality(g) <= MaxLines
       /\ globbed' = g
       /\ date' = q
       /\ filelist' = sorted(g)
       /\ file' = datedfile(sorted(g), q)
  /\ pc' = "datedfile"
  /\ UNCHANGED <<ftext, line_l, line, cvars>>

\* the results of list_configurations_old, as left when it ends
OldResults(r, cdl) ==
  /\ confdatlist' = cdl
  /\ wavblktbl' = r.tbl
  /\ wavblk_i' = r.wavblk
  /\ iarc_i' = r.iarc
  /\ iarc_a' = r.iarc_a
  /\ log' = r.log

\* list_configurations_old(infilelist, log).  Its input is "data observed prior
\* 2015" (line 241): at least one file
ListConfigurationsOld(inputs) ==
  /\ pc = "idle"
  /\ \E o \in inputs :
       /\ Size(o) > 0
       /\ obs' = o
       /\ infilelist' = [i \in DOMAIN o |-> i]
       /\ \E cdl \in SetOrders(Configs([i \in DOMAIN o |-> i], o)) :
            LET r == list_configurations_old([i \in DOMAIN o |-> i], o, cdl, <<>>)
            IN /\ OldResults(r, cdl)
               /\ err' = r.err
               /\ pc' = IF r.end = "return" THEN "list_configurations_old" ELSE r.end
  /\ UNCHANGED <<dvars, old_data, warned, config_dict>>

\* list_configurations(infilelist, log): lines 169-181 on old data
OldBranch(infl, o) ==
  \E cdl \in SetOrders(Configs(infl, o)) :
     LET r == list_configurations_old(infl, o, cdl,
                                      <<Message("Configuration map for old data", <<>>, -1)>>)
         m == OldMap(Range(r.tbl.conf), r, infl, cdl, <<>>)
     IN /\ OldResults(r, cdl)
        /\ warned' = {}
        /\ IF r.end # "return"
           THEN /\ config_dict' = <<>> /\ err' = r.err /\ pc' = r.end
           ELSE /\ config_dict' = m.dict
                /\ err' = m.err
                /\ pc' = IF m.err = "" THEN "list_configurations" ELSE "raise"

\* list_configurations(infilelist, log): lines 183-221
\* (without any file the table has no column and line 191 raises KeyError)
NewBranch(infl, o) ==
  /\ UNCHANGED <<wavblktbl, wavblk_i, iarc_i, iarc_a>>
  /\ IF Size(infl) = 0
     THEN /\ confdatlist' = <<>> /\ warned' = {} /\ log' = <<>> /\ config_dict' = <<>>
          /\ err' = "KeyError" /\ pc' = "raise"
     ELSE /\ confdatlist' = configmap(infl, o)
          /\ warned' = Warned(infl, o)
          /\ log' = Warnings(Cardinality(Warned(infl, o)))
          /\ config_dict' = ModernMap(infl, o)
          /\ err' = "" /\ pc' = "list_configurations"

ListConfigurations(inputs) ==
  /\ pc = "idle"
  /\ \E o \in inputs :
       /\ obs' = o
       /\ infilelist' = Filtered(o)
       /\ old_data' = OldData(Filtered(o), o)
       /\ IF OldData(Filtered(o), o) THEN OldBranch(Filtered(o), o)
          ELSE NewBranch(Filtered(o), o)
  /\ UNCHANGED dvars

\* the caller takes the result (or catches the exception); the next call starts
\* from scratch.  Nothing follows exit().
Return ==
  /\ pc \notin {"idle", "exit"}
  /\ pc' = "idle"
  /\ ftext' = <<>> /\ line_l' = <<>> /\ date' = 0 /\ line' = 0
  /\ globbed' = {} /\ filelist' = <<>> /\ file' = 0
  /\ obs' = <<>> /\ infilelist' = <<>> /\ old_data' = FALSE /\ confdatlist' = <<>>
  /\ wavblktbl' = <<>> /\ wavblk_i' = <<>> /\ iarc_i' = <<>> /\ iarc_a' = <<>>
  /\ log' = <<>> /\ warned' = {} /\ config_dict' = <<>> /\ err' = ""

NextDated == Datedline \/ Datedfile \/ Return
SpecDated == Init /\ [][NextDated]_vars

NextLegacy ==
  \/ ListConfigurationsOld(LegacyInputs)
  \/ ListConfigurations(LegacyInputs \cup ListsOf(MixedHdrs))
  \/ Return
SpecLegacy == Init /\ [][NextLegacy]_vars

NextModern == ListConfigurations(ModernInputs) \/ Return
SpecModern == Init /\ [][NextModern]_vars

Next == NextDated \/ NextLegacy \/ NextModern
Spec == Init /\ [][Next]_vars

-----------------------------------------------------------------------------
(* Properties of the dated selection *)

\* positions of line_l whose date is <= the query date
Applicable == {i \in 1..Len(line_l) : line_l[i].date <= date}
ApplicableFiles == {i \in 1..Len(filelist) : filelist[i].date <= date}

AscendingByDate(dl) == \A i, j \in 1..Len(dl) : i < j => dl[i].date <= dl[j].date
AscendingByDateVer(dl) ==
  \A i, j \in 1..Len(dl) : i < j => (dl[i] = dl[j] \/ NameLess(dl[i], dl[j]))

\* C2 as stated: whatever the order of the records, datedline returns a record
\* whose date is the greatest of the dates <= the query date.
C2_GreatestDateAnyOrder ==
  (pc = "datedline" /\ Applicable # {}) =>
     /\ line \in Applicable
     /\ \A i \in Applicable : line_l[i].date <= line_l[line].date

\* C2 amended: datedline returns the last-positioned record whose date is <= the
\* query date; when the records are in ascending date order that record carries
\* the greatest date <= the query date (so a query at the latest date present
\* returns a record of that date).
C2_LastApplicable ==
  (pc = "datedline" /\ Applicable # {}) =>
     /\ line = MaxOf(Applicable)
     /\ AscendingByDate(line_l) =>
          \A i \in Applicable : line_l[i].date <= line_l[line].date

\* C2 witness: records out of date order, where an earlier-positioned record has
\* a later date (still <= the query) than the record returned.
C2_Witness ==
  /\ pc = "datedline"
  /\ line # 0
  /\ ~AscendingByDate(line_l)
  /\ \E i \in Applicable : line_l[i].date > line_l[line].date

\* C8 as stated: datedline and datedfile both return the empty result when no
\* record (file) has a date <= the query date, and never return a record (file)
\* dated after the query date.
C8_EmptyWhenNoneApplicable ==
  /\ pc = "datedline" =>
       /\ Applicable = {} => line = 0
       /\ line # 0 => line_l[line].date <= date
  /\ pc = "datedfile" =>
       /\ ApplicableFiles = {} => file = 0
       /\ file # 0 => filelist[file].date <= date

\* C8 amended: datedline returns "" when no record has a date <= the query date
\* (an empty input included) and never a record dated after the query date;
\* datedfile returns "" only when no file matches the pattern: when files exist
\* and none has a date <= the query date it returns the first file of the sorted
\* list, and otherwise a file whose date is <= the query date.
C8_EmptyLineFirstFile ==
  /\ pc = "datedline" =>
       /\ Applicable = {} => line = 0
       /\ line # 0 => line_l[line].date <= date
  /\ pc = "datedfile" =>
       /\ filelist = <<>> => file = 0
       /\ (filelist # <<>> /\ ApplicableFiles = {}) => file = 1
       /\ ApplicableFiles # {} => file \in ApplicableFiles

\* C8 witness: files exist, all dated after the query date; the first one is returned.
C8_Witness ==
  /\ pc = "datedfile"
  /\ Len(filelist) >= 2
  /\ ApplicableFiles = {}
  /\ file = 1 /\ filelist[file].date > date

\* C9: for records ascending by (date, version), the record returned is the
\* last-positioned record of its date and carries the highest version of that
\* date; a record is returned whenever one has a date <= the query date.
C9_HighestVersion ==
  (pc = "datedline" /\ AscendingByDateVer(line_l) /\ Applicable # {}) =>
     /\ line \in Applicable
     /\ \A i \in 1..Len(line_l) :
          line_l[i].date = line_l[line].date =>
             (i <= line /\ line_l[i].ver <= line_l[line].ver)

\* C9 witness: versions 1 and 2 of the queried date, version 2 later; a line is returned.
C9_Witness ==
  /\ pc = "datedline"
  /\ AscendingByDateVer(line_l)
  /\ line # 0
  /\ \E i, j \in 1..Len(line_l) :
       /\ i < j
       /\ line_l[i].date = date /\ line_l[j].date = date
       /\ line_l[i].ver = 1 /\ line_l[j].ver = 2

-----------------------------------------------------------------------------
(* Properties of the legacy path *)

Records == DOMAIN infilelist
HdrOf(i) == obs[infilelist[i]]

\* list_configurations_old was entered by the call that has just ended
LegacyRan ==
  \/ pc \in {"list_configurations_old", "exit"}
  \/ pc \in {"list_configurations", "raise"} /\ old_data

\* list_configurations_old returned its four results
LegacyReturned == LegacyRan /\ pc # "exit"

Logged(m) == \E k \in 1..Len(log) : log[k].msg = m

ArcRecords == {i \in Records : isarc(HdrOf(i))}
SameConf(i, j) == configdat(HdrOf(i)) = configdat(HdrOf(j))
ArclessRecords == {i \in Records : \A j \in ArcRecords : ~SameConf(i, j)}

\* the records of block w after the no-arc pass
Block(w) == {i \in Records : wavblk_i[i] = w}

\* |imageno - mean of the block|, times the block size
Distance(a, blk) == Abs(HdrOf(a).img * Cardinality(blk) - SumImg(wavblktbl, blk))

\* the arc of a's configuration nearest to the block's mean, first on ties
Nearest(blk) ==
  LET cand == {a \in ArcRecords : SameConf(a, MinOf(blk))}
  IN CHOOSE a \in cand :
       \A b \in cand : Distance(a, blk) < Distance(b, blk)
                         \/ (Distance(a, blk) = Distance(b, blk) /\ a <= b)

\* C1 as stated: every valid block without arc record is assigned the arc of its
\* configuration whose image number is nearest (in absolute difference) to the
\* block's mean image number, the first such arc on ties; the block {200,201,202}
\* between arcs 190 and 210 gets the arc 210.
C1_NearestArcFallback ==
  LegacyReturned =>
    \A w \in Range(wavblk_i) \ {-1} :
       (Block(w) \cap ArcRecords = {}) =>
          \A i \in Block(w) : iarc_i[i] = Nearest(Block(w))

\* C4: on the legacy path, an input without any arc record ends in exit() right
\* after the 'Cannot calibrate any images' notice, with no arc assignment and no
\* map; an input with an arc record somewhere never exits and never logs the notice.
C4_FatalOnlyWithoutAnyArc ==
  LegacyRan =>
    /\ ArcRecords = {} =>
         /\ pc = "exit"
         /\ log[Len(log)].msg = "Cannot calibrate any images"
         /\ ~Logged("Use Arc")
         /\ iarc_i = <<>> /\ iarc_a = <<>> /\ config_dict = <<>>
    /\ ArcRecords # {} =>
         /\ pc # "exit"
         /\ ~Logged("Cannot calibrate any images")

\* C4 witness: two configurations, neither with an arc; the run has exited.
C4_Witness ==
  /\ pc = "exit"
  /\ Size(confdatlist) = 2
  /\ ArcRecords = {}

\* C5 as stated: when a configuration has no arc and another has one, the call
\* returns and no record of the arc-less configuration is mapped to an arc record
\* or contributes an entry to the returned chosen arcs.
C5_ArclessConfigurationDropped ==
  (LegacyRan /\ ArcRecords # {} /\ ArclessRecords # {}) =>
    /\ pc # "exit"
    /\ \A i \in ArclessRecords : iarc_i[i] \notin ArcRecords
    /\ Range(iarc_a) \subseteq {iarc_i[j] : j \in Records \ ArclessRecords}

\* the three change signals between records i-1 and i
Changed(i) ==
  \/ HdrOf(i).img - HdrOf(i - 1).img > 1
  \/ Abs(HdrOf(i).rho - HdrOf(i - 1).rho) > 5
  \/ configdat(HdrOf(i)) # configdat(HdrOf(i - 1))

\* C6: block ids start at 0 and go up by one exactly at the records where the
\* image number exceeds the previous one by more than 1, the rotator angle
\* differs from the previous one by more than 5 degrees in absolute value, or the
\* configuration tuple differs; images 100,101,102,105,106,107 of one
\* configuration and track give the blocks {100,101,102} and {105,106,107}.
C6_BlockSegmentation ==
  LegacyRan =>
    /\ DOMAIN wavblktbl.wblk = Records
    /\ \A i \in Records :
         wavblktbl.wblk[i] = IF i = 0 THEN 0
                             ELSE wavblktbl.wblk[i - 1] + (IF Changed(i) THEN 1 ELSE 0)
    /\ obs = GapExample =>
         /\ {i \in Records : wavblktbl.wblk[i] = 0} = {0, 1, 2}
         /\ {i \in Records : wavblktbl.wblk[i] = 1} = {3, 4, 5}

\* C6 witness: the six-image example has been segmented into its two blocks.
C6_Witness ==
  /\ pc = "list_configurations_old"
  /\ obs = GapExample
  /\ Range(wavblktbl.wblk) = {0, 1}

Keys == DOMAIN config_dict

\* C10 as stated: on pre-2015 data with an arc somewhere, building the map
\* completes, and every entry has as 'arc' an arc record of the key's
\* configuration and as 'object' only records of that configuration that were
\* assigned that arc.
C10_LegacyMapConsistent ==
  (old_data /\ pc \in {"list_configurations", "raise"} /\ ArcRecords # {}) =>
    /\ pc = "list_configurations"
    /\ \A k \in Keys :
         \E a \in ArcRecords :
            /\ configdat(HdrOf(a)) = k
            /\ config_dict[k].arc = {infilelist[a]}
            /\ \A f \in config_dict[k].object :
                 \E i \in Records : /\ infilelist[i] = f
                                    /\ configdat(HdrOf(i)) = k
                                    /\ iarc_i[i] = a

-----------------------------------------------------------------------------
(* Properties of the modern path *)

ModernReturned == pc = "list_configurations" /\ ~old_data

Surviving == Range(infilelist)
KeyOf(f) == <<obs[f].grating, obs[f].grang, obs[f].camang, obs[f].bvisit>>
HasObject(k) == \E g \in Surviving : KeyOf(g) = k /\ obs[g].ccdtype \notin {"ARC", "FLAT"}
Roles == {"arc", "flat", "object"}
Bucket(k, role) ==
  CASE role = "arc" -> config_dict[k].arc
    [] role = "flat" -> config_dict[k].flat
    [] role = "object" -> config_dict[k].object
Places(f) == {p \in Keys \X Roles : f \in Bucket(p[1], p[2])}
RoleOf(f) ==
  IF obs[f].ccdtype = "ARC" THEN "arc"
  ELSE IF obs[f].ccdtype = "FLAT" THEN "flat" ELSE "object"

\* C3 as stated: every surviving record is in exactly one role bucket of exactly
\* one entry, or in no entry when its own configuration has no object record; no
\* record is in the buckets of two entries.
C3_OneBucketOneEntry ==
  ModernReturned =>
    \A f \in Surviving :
       /\ HasObject(KeyOf(f)) => Cardinality(Places(f)) = 1
       /\ ~HasObject(KeyOf(f)) => Places(f) = {}
       /\ Cardinality({p[1] : p \in Places(f)}) <= 1

\* f is an arc that key k, having no arc of its own, borrows from another visit
Borrowed(f, k) ==
  /\ obs[f].ccdtype = "ARC"
  /\ \A g \in Surviving : ~(KeyOf(g) = k /\ obs[g].ccdtype = "ARC")
  /\ obs[f].grating = k[1]
  /\ Abs(obs[f].grang - k[2]) < 3
  /\ Abs(obs[f].camang - k[3]) < 5
  /\ obs[f].bvisit # k[4]

\* C3 amended: every surviving record is in exactly one role bucket (that of its
\* CCDTYPE) of the entry of its own configuration, and that entry exists exactly
\* when the configuration has an object record; in the entry of another key it is
\* in no flat or object bucket, and in the arc bucket exactly when it is an arc
\* that this key, having no exact-match arc, borrows through the fallback.  Only
\* surviving records are in buckets.
C3_OwnEntryPlusBorrowedArcs ==
  ModernReturned =>
    /\ \A k \in Keys, role \in Roles : Bucket(k, role) \subseteq Surviving
    /\ \A f \in Surviving :
         /\ KeyOf(f) \in Keys <=> HasObject(KeyOf(f))
         /\ KeyOf(f) \in Keys =>
              {p \in Places(f) : p[1] = KeyOf(f)} = {<<KeyOf(f), RoleOf(f)>>}
         /\ \A k \in Keys \ {KeyOf(f)} :
              /\ f \notin config_dict[k].flat
              /\ f \notin config_dict[k].object
              /\ f \in config_dict[k].arc <=> Borrowed(f, k)

\* C3 witness: a record was filtered out, and a surviving record is in the
\* buckets of two entries.
C3_Witness ==
  /\ ModernReturned
  /\ Surviving # DOMAIN obs
  /\ \E f \in Surviving : Cardinality({p[1] : p \in Places(f)}) = 2

\* the arcs that match key k but for the block-visit id, within the tolerances
Relaxed(k) ==
  {f \in Surviving :
     /\ obs[f].ccdtype = "ARC"
     /\ obs[f].grating = k[1]
     /\ obs[f].grang - k[2] \in -2..2
     /\ obs[f].camang - k[3] \in -4..4
     /\ obs[f].bvisit # k[4]}
Exact(k) == {f \in Surviving : obs[f].ccdtype = "ARC" /\ KeyOf(f) = k}

\* C7: for a key without exact-match arc the arc bucket is exactly the arcs of
\* the same grating, a grating-angle difference strictly inside (-0.03, 0.03),
\* an articulation difference strictly inside (-0.05, 0.05) and another
\* block-visit id; the warning is logged for a key exactly when that fallback
\* bucket is non-empty; a key with an exact-match arc keeps its exact arcs.
C7_ArcFallback ==
  ModernReturned =>
    /\ \A k \in Keys :
         config_dict[k].arc = IF Exact(k) = {} THEN Relaxed(k) ELSE Exact(k)
    /\ \A k \in confdatlist :
         k \in warned <=> (Exact(k) = {} /\ Relaxed(k) # {})
    /\ Len(log) = Cardinality(warned)
    /\ \A n \in 1..Len(log) : log[n].msg = "Warning: using arc from different BLOCKID"

\* C7 witness: a key without arc of its own gets an arc of another visit whose
\* angles differ, while an arc exactly 0.03 away is left out; the warning is logged.
C7_Witness ==
  /\ ModernReturned
  /\ \E k \in Keys :
       /\ k \in warned
       /\ \E f \in config_dict[k].arc : obs[f].grang # k[2]
       /\ \E g \in Surviving \ config_dict[k].arc :
            /\ obs[g].ccdtype = "ARC" /\ obs[g].grating = k[1] /\ obs[g].bvisit # k[4]
            /\ obs[g].grang - k[2] = 3

=============================================================================
